---- MODULE Spec2Model ----
(***************************************************************************)
(* fixInfoPlist.py: the script that removes the InstaMathInfo.plist entry  *)
(* from the Copy Bundle Resources build phases of project.pbxproj.         *)
(*                                                                         *)
(* A text is a sequence of symbols.  The three literal strings the script  *)
(* searches for are one symbol each (none of them contains a newline, a    *)
(* comma at its end or a blank at its end, and none overlaps itself or     *)
(* another):                                                               *)
(*   HDR    "/* Copy Bundle Resources */ = {"                              *)
(*   END    "};"                                                           *)
(*   PLIST  "InstaMathInfo.plist"                                          *)
(* and the characters its line handling tells apart are NL (newline),      *)
(* COMMA, SP (a blank) and XCH (any other character).                      *)
(***************************************************************************)
EXTENDS Integers, Sequences, FiniteSets, TLC

HDR == "HDR"
END == "END"
PLIST == "PLIST"
NL == "NL"
COMMA == "COMMA"
SP == "SP"
XCH == "x"

\* Bounds of the model.
MaxLen == 5
MaxRuns == 2

Alphabet == {HDR, END, PLIST, NL, COMMA, SP}

\* Project files longer than MaxLen that the runs are also started on.
Fixtures ==
  { <<HDR, NL, XCH, COMMA, NL, PLIST, COMMA, NL, END>>,
    <<HDR, NL, XCH, COMMA, SP, NL, PLIST, NL, END>>,
    <<HDR, COMMA, SP, NL, PLIST, NL, END>>,
    <<HDR, NL, PLIST, NL, PLIST, NL, END>>,
    <<HDR, NL, PLIST, NL, END, HDR, NL, PLIST, NL, END>>,
    <<HDR, NL, PLIST, NL, END, PLIST, HDR, NL, XCH, PLIST, COMMA, NL, END>>,
    <<HDR, PLIST, END, HDR, HDR, PLIST, END>>,
    <<HDR, PLIST, NL, HDR, PLIST, END, HDR, PLIST, END>>,
    <<HDR, NL, PLIST, END, PLIST, END>> }

Contents == UNION { [1..n -> Alphabet] : n \in 0..MaxLen } \cup Fixtures

\* The lines the script prints.
MsgNotFound == "Error: project.pbxproj not found"
MsgBackup == "Created backup at project.pbxproj.bak"
MsgFound == "Found InstaMathInfo.plist in Copy Bundle Resources"
MsgRemoved == "Removed InstaMathInfo.plist from Copy Bundle Resources"
MsgUpdated == "Successfully updated project.pbxproj"
MsgNoChanges == "No changes were made"

-----------------------------------------------------------------------------
(* String operations of the script. *)

\* The first index >= i at which s holds tok, 0 when there is none.
IndexFrom(s, tok, i) ==
  IF \E j \in i..Len(s) : s[j] = tok
  THEN CHOOSE j \in i..Len(s) : s[j] = tok /\ \A m \in i..(j-1) : s[m] # tok
  ELSE 0

\* "tok in s"
Contains(s, tok) == \E j \in 1..Len(s) : s[j] = tok

\* re.finditer(r'/\* Copy Bundle Resources \*/ = \{(.*?)\};', c, re.DOTALL):
\* leftmost, non-overlapping matches, each from a header to the first "};"
\* after it; match.group(0) of each.
RECURSIVE FindSectionsFrom(_, _)
FindSectionsFrom(c, i) ==
  IF i > Len(c) THEN <<>>
  ELSE IF c[i] = HDR
       THEN LET j == IndexFrom(c, END, i + 1)
            IN IF j = 0 THEN FindSectionsFrom(c, i + 1)
               ELSE <<SubSeq(c, i, j)>> \o FindSectionsFrom(c, j + 1)
       ELSE FindSectionsFrom(c, i + 1)

FindSections(c) == FindSectionsFrom(c, 1)

\* s.split('\n')
RECURSIVE Split(_)
Split(s) ==
  LET j == IndexFrom(s, NL, 1)
  IN IF j = 0 THEN <<s>>
     ELSE <<SubSeq(s, 1, j - 1)>> \o Split(SubSeq(s, j + 1, Len(s)))

\* '\n'.join(lines)
RECURSIVE Join(_)
Join(lines) ==
  IF Len(lines) = 0 THEN <<>>
  ELSE IF Len(lines) = 1 THEN lines[1]
  ELSE lines[1] \o <<NL>> \o Join(Tail(lines))

IsSpace(t) == t \in {SP, NL}

\* l.strip()
RECURSIVE RStripSpace(_)
RStripSpace(l) ==
  IF Len(l) > 0 /\ IsSpace(l[Len(l)]) THEN RStripSpace(SubSeq(l, 1, Len(l) - 1))
  ELSE l

RECURSIVE LStripSpace(_)
LStripSpace(l) ==
  IF Len(l) > 0 /\ IsSpace(l[1]) THEN LStripSpace(Tail(l)) ELSE l

Strip(l) == LStripSpace(RStripSpace(l))

\* l.endswith(',')
EndsWithComma(l) == Len(l) > 0 /\ l[Len(l)] = COMMA

\* l.rstrip(',')
RECURSIVE RStripComma(_)
RStripComma(l) ==
  IF Len(l) > 0 /\ l[Len(l)] = COMMA THEN RStripComma(SubSeq(l, 1, Len(l) - 1))
  ELSE l

\* lines.pop(i), i counted from 1
Pop(lines, i) == SubSeq(lines, 1, i - 1) \o SubSeq(lines, i + 1, Len(lines))

\* s.replace(old, new) for a non-empty old: every non-overlapping occurrence,
\* left to right.
RECURSIVE ReplaceFrom(_, _, _, _)
ReplaceFrom(s, old, new, i) ==
  IF i > Len(s) THEN <<>>
  ELSE IF i + Len(old) - 1 <= Len(s) /\ SubSeq(s, i, i + Len(old) - 1) = old
       THEN new \o ReplaceFrom(s, old, new, i + Len(old))
       ELSE <<s[i]>> \o ReplaceFrom(s, old, new, i + 1)

Replace(s, old, new) == ReplaceFrom(s, old, new, 1)

\* RemoveLine with the pop forgotten: the line stays.
RemoveLineKeepsLine(lines, i) ==
  IF i > 1 /\ EndsWithComma(Strip(lines[i - 1]))
  THEN [lines EXCEPT ![i - 1] = RStripComma(lines[i - 1])]
  ELSE lines

\* RemoveLine popping the line before the one found (an index off by one).
RemoveLineOffByOne(lines, i) ==
  LET prev == IF i > 1 /\ EndsWithComma(Strip(lines[i - 1]))
              THEN [lines EXCEPT ![i - 1] = RStripComma(lines[i - 1])]
              ELSE lines
  IN IF i > 1 THEN Pop(prev, i - 1) ELSE Pop(prev, i)

\* The body of "if 'InstaMathInfo.plist' in line", for line i (from 1): the
\* line before it loses its trailing commas when, stripped, it ends with one;
\* line i is popped.
RemoveLine(lines, i) ==
  LET prev == IF i > 1 /\ EndsWithComma(Strip(lines[i - 1]))
              THEN [lines EXCEPT ![i - 1] = RStripComma(lines[i - 1])]
              ELSE lines
  IN Pop(prev, i)

-----------------------------------------------------------------------------
(* The file system, the process and what the checks need to remember. *)

VARIABLES
  pbxproj_exists,          \* os.path.exists(pbxproj_path)
  pbxproj_file,            \* the text stored at pbxproj_path
  backup_exists,           \* whether pbxproj_path + ".bak" exists
  backup_file,             \* the text stored at backup_path
  pc,                      \* where the script is
  content,                 \* the script's variables
  copy_resources_sections,
  section_idx,             \* how many sections the outer for loop has taken
  section,
  lines,
  line_i,                  \* how many lines the inner for loop has taken
  new_content,
  modified,
  out,                     \* the lines printed by this run
  exit_status,             \* -1 while the script runs
  run,                     \* the number of the run
  start_file,              \* history: pbxproj_file when this run started
  prev_start,              \* history: start_file of the run before
  opened,                  \* history: this run opened pbxproj_path to read or write
  writes                   \* history: times this run opened pbxproj_path to write

vars == << pbxproj_exists, pbxproj_file, backup_exists, backup_file, pc, content,
           copy_resources_sections, section_idx, section, lines, line_i,
           new_content, modified, out, exit_status, run, start_file, prev_start,
           opened, writes >>

fs == << pbxproj_exists, pbxproj_file, backup_exists, backup_file >>
scan == << content, copy_resources_sections >>
loop == << section_idx, section, lines, line_i >>
hist == << run, start_file, prev_start >>

Init ==
  /\ pbxproj_exists \in BOOLEAN
  /\ pbxproj_file \in (IF pbxproj_exists THEN Contents ELSE {<<>>})
  /\ backup_exists = FALSE
  /\ backup_file = <<>>
  /\ pc = "check"
  /\ content = <<>>
  /\ copy_resources_sections = <<>>
  /\ section_idx = 0
  /\ section = <<>>
  /\ lines = <<>>
  /\ line_i = 0
  /\ new_content = <<>>
  /\ modified = FALSE
  /\ out = <<>>
  /\ exit_status = -1
  /\ run = 1
  /\ start_file = pbxproj_file
  /\ prev_start = <<>>
  /\ opened = FALSE
  /\ writes = 0

\* CheckExists with the exit(1) forgotten: the error is printed and the
\* script goes on.
CheckExistsNoExit ==
  /\ pc = "check"
  /\ pc' = "backup"
  /\ out' = IF pbxproj_exists THEN out ELSE Append(out, MsgNotFound)
  /\ UNCHANGED << fs, scan, loop, new_content, modified, exit_status, hist,
                  opened, writes >>

\* CheckExists going on to the read, the backup left out.
CheckExistsSkipBackup ==
  /\ pc = "check"
  /\ IF pbxproj_exists
     THEN /\ pc' = "read"
          /\ UNCHANGED << out, exit_status >>
     ELSE /\ pc' = "done"
          /\ out' = Append(out, MsgNotFound)
          /\ exit_status' = 1
  /\ UNCHANGED << fs, scan, loop, new_content, modified, hist, opened, writes >>

\* if not os.path.exists(pbxproj_path): print(...); exit(1)
CheckExists ==
  /\ pc = "check"
  /\ IF pbxproj_exists
     THEN /\ pc' = "backup"
          /\ UNCHANGED << out, exit_status >>
     ELSE /\ pc' = "done"
          /\ out' = Append(out, MsgNotFound)
          /\ exit_status' = 1
  /\ UNCHANGED << fs, scan, loop, new_content, modified, hist, opened, writes >>

\* Backup keeping a backup that is already there.
BackupKeepsExisting ==
  /\ pc = "backup"
  /\ backup_exists' = TRUE
  /\ backup_file' = IF backup_exists THEN backup_file ELSE pbxproj_file
  /\ out' = Append(out, MsgBackup)
  /\ pc' = "read"
  /\ UNCHANGED << pbxproj_exists, pbxproj_file, scan, loop, new_content, modified,
                  exit_status, hist, opened, writes >>

\* shutil.copy2(pbxproj_path, backup_path); print(...)
Backup ==
  /\ pc = "backup"
  /\ backup_exists' = TRUE
  /\ backup_file' = pbxproj_file
  /\ out' = Append(out, MsgBackup)
  /\ pc' = "read"
  /\ UNCHANGED << pbxproj_exists, pbxproj_file, scan, loop, new_content, modified,
                  exit_status, hist, opened, writes >>

\* with open(pbxproj_path, 'r') as f: content = f.read()
Read ==
  /\ pc = "read"
  /\ content' = pbxproj_file
  /\ opened' = TRUE
  /\ pc' = "find"
  /\ UNCHANGED << fs, copy_resources_sections, loop, new_content, modified,
                  out, exit_status, hist, writes >>

\* the finditer loop, then modified = False; new_content = content
Scan ==
  /\ pc = "find"
  /\ copy_resources_sections' = FindSections(content)
  /\ modified' = FALSE
  /\ new_content' = content
  /\ pc' = "loop"
  /\ UNCHANGED << fs, content, loop, out, exit_status, hist, opened, writes >>

\* for section in copy_resources_sections: the next section is taken
NextSection ==
  /\ pc = "loop"
  /\ section_idx < Len(copy_resources_sections)
  /\ section' = copy_resources_sections[section_idx + 1]
  /\ section_idx' = section_idx + 1
  /\ pc' = "test"
  /\ UNCHANGED << fs, scan, lines, line_i, new_content, modified, out, exit_status,
                  hist, opened, writes >>

\* TestSection with modified = True set for every section.
TestSectionAlwaysModified ==
  /\ pc = "test"
  /\ modified' = TRUE
  /\ IF Contains(section, PLIST)
     THEN /\ out' = Append(out, MsgFound)
          /\ lines' = Split(section)
          /\ line_i' = 0
          /\ pc' = "lines"
     ELSE /\ pc' = "loop"
          /\ UNCHANGED << out, lines, line_i >>
  /\ UNCHANGED << fs, scan, section_idx, section, new_content, exit_status,
                  hist, opened, writes >>

\* if "InstaMathInfo.plist" in section: print(...); lines = section.split('\n')
TestSection ==
  /\ pc = "test"
  /\ IF Contains(section, PLIST)
     THEN /\ out' = Append(out, MsgFound)
          /\ lines' = Split(section)
          /\ line_i' = 0
          /\ pc' = "lines"
     ELSE /\ pc' = "loop"
          /\ UNCHANGED << out, lines, line_i >>
  /\ UNCHANGED << fs, scan, section_idx, section, new_content, modified, exit_status,
                  hist, opened, writes >>

\* for i, line in enumerate(lines): the next line is taken; when it holds
\* InstaMathInfo.plist it is removed, the section is replaced in new_content
\* and the loop over the lines is left (break)
NextLine ==
  /\ pc = "lines"
  /\ IF line_i < Len(lines)
     THEN IF Contains(lines[line_i + 1], PLIST)
          THEN /\ lines' = RemoveLine(lines, line_i + 1)
               /\ new_content' =
                    Replace(new_content, section, Join(RemoveLine(lines, line_i + 1)))
               /\ modified' = TRUE
               /\ out' = Append(out, MsgRemoved)
               /\ pc' = "loop"
               /\ UNCHANGED line_i
          ELSE /\ line_i' = line_i + 1
               /\ UNCHANGED << lines, new_content, modified, out, pc >>
     ELSE /\ pc' = "loop"
          /\ UNCHANGED << lines, line_i, new_content, modified, out >>
  /\ UNCHANGED << fs, scan, section_idx, section, exit_status, hist, opened, writes >>

\* if modified: open(pbxproj_path, 'w'); f.write(new_content); print(...)
WriteBack ==
  /\ pc = "loop"
  /\ section_idx = Len(copy_resources_sections)
  /\ modified
  /\ pbxproj_file' = new_content
  /\ opened' = TRUE
  /\ writes' = writes + 1
  /\ out' = Append(out, MsgUpdated)
  /\ exit_status' = 0
  /\ pc' = "done"
  /\ UNCHANGED << pbxproj_exists, backup_exists, backup_file, scan, loop,
                  new_content, modified, hist >>

\* NoChanges ending the script with status 1.
NoChangesExitsOne ==
  /\ pc = "loop"
  /\ section_idx = Len(copy_resources_sections)
  /\ ~modified
  /\ out' = Append(out, MsgNoChanges)
  /\ exit_status' = 1
  /\ pc' = "done"
  /\ UNCHANGED << fs, scan, loop, new_content, modified, hist, opened, writes >>

\* else: print("No changes were made")
NoChanges ==
  /\ pc = "loop"
  /\ section_idx = Len(copy_resources_sections)
  /\ ~modified
  /\ out' = Append(out, MsgNoChanges)
  /\ exit_status' = 0
  /\ pc' = "done"
  /\ UNCHANGED << fs, scan, loop, new_content, modified, hist, opened, writes >>

\* The script is started again: a new process on the files as they are.
Rerun ==
  /\ pc = "done"
  /\ run < MaxRuns
  /\ run' = run + 1
  /\ prev_start' = start_file
  /\ start_file' = pbxproj_file
  /\ pc' = "check"
  /\ content' = <<>>
  /\ copy_resources_sections' = <<>>
  /\ section_idx' = 0
  /\ section' = <<>>
  /\ lines' = <<>>
  /\ line_i' = 0
  /\ new_content' = <<>>
  /\ modified' = FALSE
  /\ out' = <<>>
  /\ exit_status' = -1
  /\ opened' = FALSE
  /\ writes' = 0
  /\ UNCHANGED fs

\* A step of the running script.
Step ==
  \/ CheckExists
  \/ Backup
  \/ Read
  \/ Scan
  \/ NextSection
  \/ TestSection
  \/ NextLine
  \/ WriteBack
  \/ NoChanges

Next == Step \/ Rerun

Spec == Init /\ [][Next]_vars

-----------------------------------------------------------------------------
(* What the properties below speak of. *)

Done == pc = "done"

\* The index (from 1) of the first of the lines that holds
\* InstaMathInfo.plist; 0 when none does.
FirstPlistLine(ls) ==
  IF \E i \in 1..Len(ls) : Contains(ls[i], PLIST)
  THEN CHOOSE i \in 1..Len(ls) :
         /\ Contains(ls[i], PLIST)
         /\ \A m \in 1..(i - 1) : ~Contains(ls[m], PLIST)
  ELSE 0

\* Some Copy Bundle Resources section of c holds InstaMathInfo.plist.
SomeSectionHasPlist(c) ==
  \E n \in 1..Len(FindSections(c)) : Contains(FindSections(c)[n], PLIST)

\* The indices of the lines of a section that hold InstaMathInfo.plist.
PlistLines(sect) ==
  { i \in 1..Len(Split(sect)) : Contains(Split(sect)[i], PLIST) }

\* Every section of c holds the string on at most one line, and that line is
\* neither the section's first line (the header's) nor its last (the one of "};").
PlainEntries(c) ==
  \A n \in 1..Len(FindSections(c)) :
    LET sect == FindSections(c)[n]
    IN /\ Cardinality(PlistLines(sect)) <= 1
       /\ 1 \notin PlistLines(sect)
       /\ Len(Split(sect)) \notin PlistLines(sect)

\* c cut at its sections: the texts between them and the sections, in order.
RECURSIVE SegmentsFrom(_, _, _)
SegmentsFrom(c, i, o) ==
  IF i > Len(c) THEN << [is_section |-> FALSE, text |-> SubSeq(c, o, Len(c))] >>
  ELSE IF c[i] = HDR /\ IndexFrom(c, END, i + 1) # 0
       THEN LET j == IndexFrom(c, END, i + 1)
            IN << [is_section |-> FALSE, text |-> SubSeq(c, o, i - 1)],
                  [is_section |-> TRUE, text |-> SubSeq(c, i, j)] >>
               \o SegmentsFrom(c, j + 1, j + 1)
       ELSE SegmentsFrom(c, i + 1, o)

Segments(c) == SegmentsFrom(c, 1, 1)

\* Every text made of one text of each set, in order.
RECURSIVE ConcatSets(_)
ConcatSets(sets) ==
  IF Len(sets) = 0 THEN { <<>> }
  ELSE { a \o b : a \in Head(sets), b \in ConcatSets(Tail(sets)) }

\* Line i of the section taken out, the line before it as it was or without
\* its trailing commas.
WithoutLine(sect, i) ==
  LET ls == Split(sect)
  IN { Join(Pop(ls, i)) } \cup
     ( IF i > 1
       THEN { Join(Pop([ls EXCEPT ![i - 1] = RStripComma(ls[i - 1])], i)) }
       ELSE {} )

-----------------------------------------------------------------------------
\* C1: when the project file does not exist, the run prints the 'not found'
\* error and ends with exit status 1, and it creates no backup and writes and
\* opens no file.
C1_MissingFile ==
  ~pbxproj_exists =>
    /\ ~backup_exists
    /\ writes = 0
    /\ ~opened
    /\ Done => (out = << MsgNotFound >> /\ exit_status = 1)

C1_Witness == Done /\ ~pbxproj_exists /\ exit_status = 1 /\ run = 2

\* C2 as claimed: after a run on an existing file, no Copy Bundle Resources
\* section of the file holds InstaMathInfo.plist, whatever the input was.
C2_NoPlistLeft ==
  (Done /\ pbxproj_exists) => ~SomeSectionHasPlist(pbxproj_file)

\* C2 amended: the same, for an input each of whose sections holds the string
\* on at most one line, a line that is neither the section's first nor its last.
C2_NoPlistLeftPlain ==
  (Done /\ pbxproj_exists /\ PlainEntries(start_file)) =>
    ~SomeSectionHasPlist(pbxproj_file)

C2_Witness ==
  /\ Done /\ run = 1 /\ writes = 1
  /\ PlainEntries(start_file)
  /\ Len(FindSections(start_file)) = 2
  /\ FindSections(start_file)[1] # FindSections(start_file)[2]

\* C3: the backup exists and equals the project file's content at the start
\* of the run from before the script first opens the project file (to read or
\* to write) to the end of the run, whether or not the run changes the file.
C3_BackupFirst ==
  /\ opened => (backup_exists /\ backup_file = start_file)
  /\ (pbxproj_exists /\ pc \in {"read", "find", "loop", "done"}) =>
       (backup_exists /\ backup_file = start_file)

C3_Witness ==
  Done /\ writes = 1 /\ pbxproj_file # start_file /\ backup_file = start_file

\* C4: a run ends in exactly one of three outcomes: 'not found' with exit
\* status 1 (file missing), 'Successfully updated project.pbxproj' (file
\* written, status 0), 'No changes were made' (file not written, status 0).
C4_Outcome ==
  Done =>
    LET notFound == /\ exit_status = 1 /\ out = << MsgNotFound >>
                    /\ writes = 0 /\ ~pbxproj_exists
        updated == /\ exit_status = 0 /\ out[Len(out)] = MsgUpdated
                   /\ writes = 1 /\ pbxproj_exists
        noChanges == /\ exit_status = 0 /\ out[Len(out)] = MsgNoChanges
                     /\ writes = 0 /\ pbxproj_exists
    IN /\ notFound \/ updated \/ noChanges
       /\ Cardinality({ n \in 1..Len(out) :
                          out[n] \in {MsgNotFound, MsgUpdated, MsgNoChanges} }) = 1
       /\ (exit_status # 0) <=> ~pbxproj_exists

\* The steps a run still has to take, at most: each section costs at most
\* PerSection steps (it is taken, tested, and its lines are taken).
PerSection(c) == Len(c) + 3

StepsLeft ==
  LET left == Len(copy_resources_sections) - section_idx
  IN CASE pc = "check" ->
            Len(FindSections(pbxproj_file)) * PerSection(pbxproj_file) + 5
       [] pc = "backup" ->
            Len(FindSections(pbxproj_file)) * PerSection(pbxproj_file) + 4
       [] pc = "read" ->
            Len(FindSections(pbxproj_file)) * PerSection(pbxproj_file) + 3
       [] pc = "find" -> Len(FindSections(content)) * PerSection(content) + 2
       [] pc = "loop" -> left * PerSection(content) + 1
       [] pc = "test" -> (left + 1) * PerSection(content)
       [] pc = "lines" -> left * PerSection(content) + 1 + (Len(lines) - line_i)
       [] pc = "done" -> 0

\* C4: every run terminates (a run that has not ended can take a step, and
\* each step brings the end nearer), and it ends in one of the three outcomes.
C4_Terminates ==
  /\ [](C4_Outcome)
  /\ [](~Done => (ENABLED Step /\ StepsLeft > 0))
  /\ [][Step => StepsLeft' < StepsLeft]_vars

C4_Witness == Done /\ run = 1 /\ writes = 1 /\ out[Len(out)] = MsgUpdated

\* C5: the project file is written (once) exactly when a Copy Bundle
\* Resources section of the content read holds InstaMathInfo.plist; when none
\* does, the file is never written, keeps its content, and the run prints
\* 'No changes were made'.
C5_WriteIffFound ==
  pbxproj_exists =>
    /\ writes <= 1
    /\ Done => (writes = 1 <=> SomeSectionHasPlist(start_file))
    /\ ~SomeSectionHasPlist(start_file) =>
         /\ writes = 0
         /\ pbxproj_file = start_file
         /\ Done => out[Len(out)] = MsgNoChanges

C5_Witness ==
  /\ Done /\ writes = 0 /\ pbxproj_exists
  /\ Len(FindSections(start_file)) > 0
  /\ Contains(start_file, PLIST)

\* C6: the written content is the original with nothing changed outside the
\* sections that hold InstaMathInfo.plist, and each of those sections either
\* as it was or with one line removed and, at most, the trailing commas of
\* the line before it gone.
C6_OnlySectionsChange ==
  (Done /\ writes = 1) =>
    LET segs == Segments(start_file)
    IN pbxproj_file \in ConcatSets(
         [ n \in 1..Len(segs) |->
             IF segs[n].is_section /\ Contains(segs[n].text, PLIST)
             THEN { segs[n].text } \cup
                  UNION { WithoutLine(segs[n].text, i) :
                            i \in 1..Len(Split(segs[n].text)) }
             ELSE { segs[n].text } ])

\* C7: in the written content each section that held InstaMathInfo.plist has
\* lost exactly its first line holding the string, all its other lines being
\* in place (the line before the removed one with or without its commas).
C7_FirstLineOnly ==
  (Done /\ writes = 1) =>
    LET segs == Segments(start_file)
    IN \E others \in ConcatSets(
         [ n \in 1..Len(segs) |->
             IF segs[n].is_section /\ Contains(segs[n].text, PLIST)
             THEN WithoutLine(segs[n].text, FirstPlistLine(Split(segs[n].text)))
             ELSE { segs[n].text } ]) : pbxproj_file = others

\* C8: for a file with one section, which holds InstaMathInfo.plist: when the
\* line before the removed line ends with a comma (blanks aside), the written
\* section has that line without the comma, so that it no longer ends with
\* one; otherwise the section's other lines are as they were.
C8_CommaRemoved ==
  (Done /\ run = 1 /\ writes = 1 /\ Len(FindSections(start_file)) = 1) =>
    LET segs == Segments(start_file)
        ls == Split(segs[2].text)
        i == FirstPlistLine(ls)
        written == SubSeq(pbxproj_file, Len(segs[1].text) + 1,
                          Len(pbxproj_file) - Len(segs[3].text))
    IN IF i > 1 /\ EndsWithComma(Strip(ls[i - 1]))
       THEN /\ Len(Split(written)) = Len(ls) - 1
            /\ ~EndsWithComma(Strip(Split(written)[i - 1]))
       ELSE written = Join(Pop(ls, i))

\* C9 as claimed: a second run changes nothing, whatever the file was: it
\* prints 'No changes were made' and leaves the first run's output.
C9_SecondRunNoChange ==
  (Done /\ run >= 2 /\ pbxproj_exists) =>
    /\ writes = 0
    /\ out[Len(out)] = MsgNoChanges
    /\ pbxproj_file = start_file

\* C9 amended: the same, when the file the run before started on had the
\* string, in each section, on at most one line, neither the section's first
\* nor its last.
C9_SecondRunNoChangePlain ==
  (Done /\ run >= 2 /\ pbxproj_exists /\ PlainEntries(prev_start)) =>
    /\ writes = 0
    /\ out[Len(out)] = MsgNoChanges
    /\ pbxproj_file = start_file

C9_Witness ==
  /\ Done /\ run = 2 /\ pbxproj_exists
  /\ PlainEntries(prev_start)
  /\ start_file # prev_start

\* C10: at the end of every run on an existing file, the first or a later
\* one, changing the file or not, the backup holds what the project file held
\* when that run started.
C10_BackupOfLatestRun ==
  (Done /\ pbxproj_exists) => (backup_exists /\ backup_file = start_file)

C10_Witness ==
  /\ Done /\ run = 2 /\ writes = 0
  /\ backup_file = start_file
  /\ backup_file # prev_start

====
